---- MODULE Spec2Model ----
(***************************************************************************)
(* Model of the ble.sniff module (ble_sniff_context.go, ble_sniff_stats.go *)
(* and the event/advertisement fragments appended to them) and of the      *)
(* MySQL packet helper MySQLGetFile.                                        *)
(*                                                                         *)
(* The module's handlers "ble.sniff on" (Start) and "ble.sniff off" (Stop) *)
(* can be invoked by two command sources of the host session; the worker   *)
(* passed to SetRunning(true, ...) is a goroutine.  Every access of a      *)
(* shared field (mod.Ctx, mod.Stats, mod.pktSourceChan, Started) is one    *)
(* step of the thread that makes it.                                       *)
(***************************************************************************)
EXTENDS Integers, Sequences, FiniteSets, TLC

VARIABLES
    Started,        \* SessionModule.Started, read by mod.Running()
    Ctx,            \* mod.Ctx: 0 is nil, otherwise an index into ctxs
    Stats,          \* mod.Stats: NoStats is nil, otherwise the SnifferStats object
    pktSourceChan,  \* mod.pktSourceChan: 0 is nil, otherwise the loop that made it
    ctxs,           \* every SnifferContext allocated so far
    loops,          \* every worker goroutine launched by SetRunning(true, ...)
    calls,          \* per command source: the handler call in progress / last result
    runCtx,         \* the context built by the Start that made the module running
    ncalls,         \* number of handler calls made so far
    caller,         \* the command source that made the latest call
    npackets,       \* number of packets received by workers so far
    consumed,       \* the last packet processed while running, with the events it pushed
    panic,          \* "none", or the place of a nil dereference that ended the program
    infile,         \* argument of MySQLGetFile
    response        \* result of MySQLGetFile, <<>> before the call

vars == <<Started, Ctx, Stats, pktSourceChan, ctxs, loops, calls, runCtx,
          ncalls, caller, npackets, consumed, panic, infile, response>>

snifferVars == <<Started, Ctx, Stats, pktSourceChan, ctxs, loops, calls, runCtx,
                 ncalls, caller, npackets, consumed, panic>>

mysqlVars == <<infile, response>>

\* Bounds of the model.
MaxCalls == 3
MaxPackets == 2
MaxInfileLen == 257

\* The command sources that can run a handler: the interactive session and the API.
Callers == {"cli", "api"}

-----------------------------------------------------------------------------
(* Parameters registered by NewSniffer and the values the user may set.    *)

DefaultInterface == "nRF Sniffer for Bluetooth LE"
DefaultTShark == "tshark"

Params == [source : {"", "capture.json"},
           pcap : {"", "capture.pcap"},
           output : {"", "out.json"},
           interface : {DefaultInterface},
           tshark : {DefaultTShark}]

\* The step of GetContext at which the environment makes a call fail, if reached.
FailPoints == {"none", "param.source", "param.tshark", "param.interface",
               "param.pcap", "StdoutPipe", "Start", "Open", "param.output", "Create"}

NoProc == [path |-> "", args |-> <<>>]

\* NewSnifferContext.  proc, srcFile and outFile record the operating-system
\* resources the context owns: the tshark process ("none", "created",
\* "running", "killed"), the file behind Reader when it was opened with
\* os.Open ("none", "open") and the file behind OutputFile ("none", "open",
\* "closed").
NewSnifferContext ==
    [Reader |-> "nil", TSharkProc |-> NoProc, TSharkRunning |-> FALSE,
     Interface |-> "", Source |-> "", PcapFile |-> "", Output |-> "",
     OutputFile |-> "nil",
     proc |-> "none", srcFile |-> "none", outFile |-> "none"]

\* The tail of GetContext: the output parameter and os.Create.
GetContextOutput(p, fail, ctx) ==
    IF fail = "param.output"
    THEN [err |-> "param.output", ctx |-> ctx]
    ELSE LET c1 == [ctx EXCEPT !.Output = p.output] IN
         IF c1.Output # ""
         THEN IF fail = "Create"
              THEN [err |-> "Create", ctx |-> c1]
              ELSE [err |-> "nil",
                    ctx |-> [c1 EXCEPT !.OutputFile = "open", !.outFile = "open"]]
         ELSE [err |-> "nil", ctx |-> c1]

\* The tshark command line built by GetContext.
TSharkCommand(tshark, interface, pcap) ==
    IF pcap = ""
    THEN [path |-> tshark, args |-> <<"-i", interface, "-T", "json">>]
    ELSE [path |-> tshark, args |-> <<"-T", "json", "-r", pcap>>]

\* TSharkStart with TSharkRunning set before the error of Start() is looked at.
TSharkStartFlagFirst(fail, ctx) ==
    IF fail = "Start"
    THEN [err |-> "Start", ctx |-> [ctx EXCEPT !.TSharkRunning = TRUE]]
    ELSE [err |-> "nil", ctx |-> [ctx EXCEPT !.TSharkRunning = TRUE, !.proc = "running"]]

\* TSharkProc.Start() and the assignment of TSharkRunning.
TSharkStart(fail, ctx) ==
    IF fail = "Start"
    THEN [err |-> "Start", ctx |-> ctx]
    ELSE [err |-> "nil", ctx |-> [ctx EXCEPT !.TSharkRunning = TRUE, !.proc = "running"]]

\* The branch of GetContext taken when Source is empty.
GetContextTShark(p, fail, ctx) ==
    IF fail = "param.tshark" THEN [err |-> "param.tshark", ctx |-> ctx]
    ELSE IF fail = "param.interface" THEN [err |-> "param.interface", ctx |-> ctx]
    ELSE LET c1 == [ctx EXCEPT !.Interface = p.interface] IN
    IF fail = "param.pcap" THEN [err |-> "param.pcap", ctx |-> c1]
    ELSE LET c2 == [c1 EXCEPT !.PcapFile = p.pcap]
             c3 == [c2 EXCEPT !.TSharkProc = TSharkCommand(p.tshark, c2.Interface, c2.PcapFile),
                              !.proc = "created"]
         IN
    IF fail = "StdoutPipe" THEN [err |-> "StdoutPipe", ctx |-> c3]
    ELSE LET s == TSharkStart(fail, c3) IN
    IF s.err # "nil" THEN s
    ELSE [err |-> "nil", ctx |-> [s.ctx EXCEPT !.Reader = "tshark"]]

\* The branch of GetContext taken when Source is set.
GetContextFile(p, fail, ctx) ==
    IF fail = "Open" THEN [err |-> "Open", ctx |-> ctx]
    ELSE [err |-> "nil", ctx |-> [ctx EXCEPT !.Reader = "file", !.srcFile = "open"]]

\* Sniffer.GetContext: the error and the context it returns.
GetContext(p, fail) ==
    LET ctx == NewSnifferContext IN
    IF fail = "param.source" THEN [err |-> "param.source", ctx |-> ctx]
    ELSE LET c1 == [ctx EXCEPT !.Source = p.source]
             r == IF c1.Source = ""
                  THEN GetContextTShark(p, fail, c1)
                  ELSE GetContextFile(p, fail, c1)
         IN
    IF r.err # "nil" THEN r
    ELSE GetContextOutput(p, fail, r.ctx)

\* SnifferContext.Close.
Close(c) ==
    LET c1 == IF c.TSharkRunning THEN [c EXCEPT !.proc = "killed"] ELSE c IN
    IF c1.OutputFile # "nil"
    THEN [c1 EXCEPT !.OutputFile = "nil", !.outFile = "closed"]
    ELSE c1

-----------------------------------------------------------------------------
(* Decoded JSON values as jstream delivers them: a string, a number or a   *)
(* map from keys to values.  m["k"].(string) succeeds when the key is      *)
(* present and holds a string; m["k"].(map[string]interface{}) when it     *)
(* holds a map.                                                             *)

Str(s) == [t |-> "str", s |-> s]
Num == [t |-> "num"]
Map(m) == [t |-> "map", m |-> m]

IsString(m, k) == k \in DOMAIN m /\ m[k].t = "str"
IsMap(m, k) == k \in DOMAIN m /\ m[k].t = "map"

AdvertisingAccessAddress == "0x8e89bed6"
NoData == "No data could be retrieved"

\* All maps over the keys ks whose values are drawn from vals[k]; a key may be absent.
MapsOver(ks, vals) ==
    UNION { [D -> UNION {vals[k] : k \in D}] : D \in SUBSET ks }

WellTyped(m, vals) == \A k \in DOMAIN m : m[k] \in vals[k]

EntryKeys == {"btcommon.eir_ad.entry.data", "btcommon.eir_ad.entry.company_id"}
EntryVals == [k \in EntryKeys |->
                 IF k = "btcommon.eir_ad.entry.data"
                 THEN {Str("0201061aff4c00")}
                 ELSE {Str("0x004c"), Num}]
Entries == {m \in MapsOver(EntryKeys, EntryVals) : WellTyped(m, EntryVals)}

AdvDataKeys == {"btcommon.eir_ad.entry"}
AdvDataVals == [k \in AdvDataKeys |-> {Str("entry")} \cup {Map(e) : e \in Entries}]
AdvDatas == {m \in MapsOver(AdvDataKeys, AdvDataVals) : WellTyped(m, AdvDataVals)}

BtleKeys == {"btle.access_address", "btle.advertising_address",
             "btcommon.eir_ad.advertising_data"}
BtleVals == [k \in BtleKeys |->
                IF k = "btle.access_address"
                THEN {Str(AdvertisingAccessAddress), Str("0x50654c7d")}
                ELSE IF k = "btle.advertising_address"
                THEN {Str("c0:ff:ee:00:00:01")}
                ELSE {Map(a) : a \in AdvDatas}]
Btles == {m \in MapsOver(BtleKeys, BtleVals) : WellTyped(m, BtleVals)}

PacketKeys == {"btle"}
PacketVals == [k \in PacketKeys |-> {Map(b) : b \in Btles}]
PacketMaps == {m \in MapsOver(PacketKeys, PacketVals) : WellTyped(m, PacketVals)}

\* The values a jstream.MetaValue can carry at the emitted depth.
Packets == {Num} \cup {Map(m) : m \in PacketMaps}

\* NewSnifferEvent(...).Push(): the event added under the tag "ble.sniff".
NewSnifferEvent(proto, src, dst, data) ==
    [tag |-> "ble.sniff", Protocol |-> proto, Source |-> src,
     Destination |-> dst, Data |-> data]

\* onProprietary without the return on a missing company_id.
onProprietaryAnyCompany(btleData) ==
    IF ~IsString(btleData, "btle.advertising_address") THEN <<>>
    ELSE LET advert_address == btleData["btle.advertising_address"].s IN
    IF ~IsMap(btleData, "btcommon.eir_ad.advertising_data") THEN <<>>
    ELSE LET advertising_data == btleData["btcommon.eir_ad.advertising_data"].m IN
    IF ~IsMap(advertising_data, "btcommon.eir_ad.entry") THEN <<>>
    ELSE LET eir_ad_entry == advertising_data["btcommon.eir_ad.entry"].m
             data == IF IsString(eir_ad_entry, "btcommon.eir_ad.entry.data")
                     THEN eir_ad_entry["btcommon.eir_ad.entry.data"].s
                     ELSE NoData
         IN
    <<NewSnifferEvent("BLE ADVERT", advert_address, "BROADCAST", data)>>

\* onProprietary: the events it pushes for the btle map of a packet.
onProprietary(btleData) ==
    IF ~IsString(btleData, "btle.advertising_address") THEN <<>>
    ELSE LET advert_address == btleData["btle.advertising_address"].s IN
    IF ~IsMap(btleData, "btcommon.eir_ad.advertising_data") THEN <<>>
    ELSE LET advertising_data == btleData["btcommon.eir_ad.advertising_data"].m IN
    IF ~IsMap(advertising_data, "btcommon.eir_ad.entry") THEN <<>>
    ELSE LET eir_ad_entry == advertising_data["btcommon.eir_ad.entry"].m
             data == IF IsString(eir_ad_entry, "btcommon.eir_ad.entry.data")
                     THEN eir_ad_entry["btcommon.eir_ad.entry.data"].s
                     ELSE NoData
         IN
    IF ~IsString(eir_ad_entry, "btcommon.eir_ad.entry.company_id") THEN <<>>
    ELSE <<NewSnifferEvent("BLE ADVERT", advert_address, "BROADCAST", data)>>

\* onAdvertisement delegates to onProprietary.
onAdvertisement(btleData) == onProprietary(btleData)

\* NewSnifferStats, owned by the worker that allocated it.  FirstPacket is
\* TRUE once it holds a non-zero time.
NoStats == [owner |-> 0, NumAdvertisements |-> 0, NumMatched |-> 0, FirstPacket |-> FALSE]
NewSnifferStats(l) ==
    [owner |-> l, NumAdvertisements |-> 0, NumMatched |-> 0, FirstPacket |-> FALSE]

\* One iteration of the body of the worker's range loop, for a packet received
\* while the module is running: the statistics afterwards, the events pushed
\* and how the iteration ends ("continue", or "return" out of the worker).
ProcessPacket(stats, packet) ==
    LET s1 == [stats EXCEPT !.FirstPacket = TRUE] IN
    IF packet.t # "map"
    THEN [stats |-> s1, events |-> <<>>, next |-> "continue"]
    ELSE LET packet_map == packet.m IN
    IF ~IsMap(packet_map, "btle")
    THEN [stats |-> s1, events |-> <<>>, next |-> "continue"]
    ELSE LET btle_data == packet_map["btle"].m IN
    IF ~IsString(btle_data, "btle.access_address")
    THEN [stats |-> s1, events |-> <<>>, next |-> "return"]
    ELSE LET access_address == btle_data["btle.access_address"].s IN
    IF access_address = AdvertisingAccessAddress
    THEN [stats |-> [s1 EXCEPT !.NumAdvertisements = @ + 1, !.NumMatched = @ + 1],
          events |-> onAdvertisement(btle_data), next |-> "continue"]
    ELSE [stats |-> [s1 EXCEPT !.NumMatched = @ + 1],
          events |-> <<>>, next |-> "continue"]

-----------------------------------------------------------------------------
(* The module: NewSniffer, Configure, Start, Stop and the worker.          *)

\* A command source with no call in progress.  After a call, op, err and at
\* keep the handler called, the error returned and the place of the return;
\* ctx is the context the call built (Start) or closed
\* (Stop), run the context of the run a Stop is stopping.
IdleCall == [pc |-> "idle", op |-> "none", err |-> "nil", at |-> "", ctx |-> 0, run |-> 0]
NoPacket == [valid |-> FALSE, pkt |-> Num, events |-> <<>>]

\* NewSniffer: Stats is nil and Ctx is a fresh NewSnifferContext().
Init ==
    /\ Started = FALSE
    /\ ctxs = <<NewSnifferContext>>
    /\ Ctx = 1
    /\ Stats = NoStats
    /\ pktSourceChan = 0
    /\ loops = <<>>
    /\ calls = [c \in Callers |-> IdleCall]
    /\ runCtx = 0
    /\ ncalls = 0
    /\ caller = "none"
    /\ npackets = 0
    /\ consumed = NoPacket
    /\ panic = "none"
    /\ infile = <<>>
    /\ response = <<>>

\* mod.Running()
Running == Started

\* StartConfigure without the check of mod.Running().
StartConfigureNoCheck(c) ==
    /\ panic = "none"
    /\ calls[c].pc = "idle"
    /\ ncalls < MaxCalls
    /\ ncalls' = ncalls + 1
    /\ caller' = c
    /\ calls' = [calls EXCEPT ![c] = [IdleCall EXCEPT !.op = "Start",
                       !.pc = "GetContext"]]
    /\ UNCHANGED <<Started, Ctx, Stats, pktSourceChan, ctxs, loops, runCtx,
                   npackets, consumed, panic, mysqlVars>>

\* Start, entering Configure: the check of mod.Running().
StartConfigure(c) ==
    /\ panic = "none"
    /\ calls[c].pc = "idle"
    /\ ncalls < MaxCalls
    /\ ncalls' = ncalls + 1
    /\ caller' = c
    /\ IF Running
       THEN calls' = [calls EXCEPT ![c] = [IdleCall EXCEPT !.op = "Start",
                          !.err = "ErrAlreadyStarted", !.at = "Configure"]]
       ELSE calls' = [calls EXCEPT ![c] = [IdleCall EXCEPT !.op = "Start",
                          !.pc = "GetContext"]]
    /\ UNCHANGED <<Started, Ctx, Stats, pktSourceChan, ctxs, loops, runCtx,
                   npackets, consumed, panic, mysqlVars>>

\* Configure: err, mod.Ctx = mod.GetContext().
StartGetContext(c, p, fail) ==
    /\ panic = "none"
    /\ calls[c].pc = "GetContext"
    /\ LET r == GetContext(p, fail)
           id == Len(ctxs) + 1
       IN /\ ctxs' = Append(ctxs, r.ctx)
          /\ Ctx' = id
          /\ calls' = [calls EXCEPT ![c].ctx = id, ![c].err = r.err,
                          ![c].pc = IF r.err # "nil" THEN "ConfigureErr" ELSE "SetRunning"]
    /\ UNCHANGED <<Started, Stats, pktSourceChan, loops, runCtx, ncalls, caller,
                   npackets, consumed, panic, mysqlVars>>

\* Configure, on an error of GetContext: close mod.Ctx, set it to nil; Start
\* returns the error.
StartConfigureErr(c) ==
    /\ panic = "none"
    /\ calls[c].pc = "ConfigureErr"
    /\ IF Ctx # 0
       THEN /\ ctxs' = [ctxs EXCEPT ![Ctx] = Close(@)]
            /\ Ctx' = 0
       ELSE UNCHANGED <<ctxs, Ctx>>
    /\ calls' = [calls EXCEPT ![c].pc = "idle", ![c].at = "GetContext"]
    /\ UNCHANGED <<Started, Stats, pktSourceChan, loops, runCtx, ncalls, caller,
                   npackets, consumed, panic, mysqlVars>>

\* Start: mod.SetRunning(true, worker).  The worker is launched as a goroutine.
StartSetRunning(c) ==
    /\ panic = "none"
    /\ calls[c].pc = "SetRunning"
    /\ IF Running
       THEN /\ calls' = [calls EXCEPT ![c].pc = "idle",
                            ![c].err = "ErrAlreadyStarted", ![c].at = "SetRunning"]
            /\ UNCHANGED <<Started, loops, runCtx>>
       ELSE /\ Started' = TRUE
            /\ loops' = Append(loops, [pc |-> "init", rd |-> 0])
            /\ runCtx' = calls[c].ctx
            /\ calls' = [calls EXCEPT ![c].pc = "idle", ![c].at = "SetRunning"]
    /\ UNCHANGED <<Ctx, Stats, pktSourceChan, ctxs, ncalls, caller, npackets,
                   consumed, panic, mysqlVars>>

\* Stop: mod.SetRunning(false, ...) up to the call of its callback.
StopSetRunning(c) ==
    /\ panic = "none"
    /\ calls[c].pc = "idle"
    /\ ncalls < MaxCalls
    /\ ncalls' = ncalls + 1
    /\ caller' = c
    /\ IF ~Running
       THEN /\ calls' = [calls EXCEPT ![c] = [IdleCall EXCEPT !.op = "Stop",
                            !.err = "ErrAlreadyStopped", !.at = "SetRunning"]]
            /\ UNCHANGED Started
       ELSE /\ Started' = FALSE
            /\ calls' = [calls EXCEPT ![c] = [IdleCall EXCEPT !.op = "Stop",
                            !.pc = "StopCallback", !.run = runCtx]]
    /\ UNCHANGED <<Ctx, Stats, pktSourceChan, ctxs, loops, runCtx, npackets,
                   consumed, panic, mysqlVars>>

\* Stop's callback, mod.Ctx.Close(), and the return of Stop.
StopCallback(c) ==
    /\ panic = "none"
    /\ calls[c].pc = "StopCallback"
    /\ IF Ctx = 0
       THEN /\ panic' = "Stop"
            /\ UNCHANGED <<ctxs, calls>>
       ELSE /\ ctxs' = [ctxs EXCEPT ![Ctx] = Close(@)]
            /\ calls' = [calls EXCEPT ![c].pc = "idle", ![c].ctx = Ctx,
                            ![c].at = "Callback"]
            /\ UNCHANGED panic
    /\ UNCHANGED <<Started, Ctx, Stats, pktSourceChan, loops, runCtx, ncalls, caller,
                   npackets, consumed, mysqlVars>>

\* The worker's first statements: mod.Stats = NewSnifferStats() and
\* mod.pktSourceChan = jstream.NewDecoder(mod.Ctx.Reader, 3).Stream().
WorkerInit(l) ==
    /\ panic = "none"
    /\ l \in DOMAIN loops
    /\ loops[l].pc = "init"
    /\ IF Ctx = 0 \/ ctxs[Ctx].Reader = "nil"
       THEN /\ panic' = "worker"
            /\ Stats' = NewSnifferStats(l)
            /\ UNCHANGED <<pktSourceChan, loops>>
       ELSE /\ Stats' = NewSnifferStats(l)
            /\ pktSourceChan' = l
            /\ loops' = [loops EXCEPT ![l] = [pc |-> "range", rd |-> Ctx]]
            /\ UNCHANGED panic
    /\ UNCHANGED <<Started, Ctx, ctxs, calls, runCtx, ncalls, caller, npackets,
                   consumed, mysqlVars>>

\* One iteration of the worker's loop for a packet received from its channel.
WorkerPacket(l, packet) ==
    /\ panic = "none"
    /\ l \in DOMAIN loops
    /\ loops[l].pc = "range"
    /\ npackets < MaxPackets
    /\ npackets' = npackets + 1
    /\ IF ~Running
       THEN /\ pktSourceChan' = 0
            /\ loops' = [loops EXCEPT ![l].pc = "done"]
            /\ consumed' = NoPacket
            /\ UNCHANGED Stats
       ELSE LET r == ProcessPacket(Stats, packet) IN
            /\ Stats' = r.stats
            /\ consumed' = [valid |-> TRUE, pkt |-> packet, events |-> r.events]
            /\ IF r.next = "return"
               THEN loops' = [loops EXCEPT ![l].pc = "done"]
               ELSE UNCHANGED loops
            /\ UNCHANGED pktSourceChan
    /\ UNCHANGED <<Started, Ctx, ctxs, calls, runCtx, ncalls, caller, panic, mysqlVars>>

\* The stream behind the worker's channel can end: a file or a pcap capture
\* has an end, a live capture ends when tshark has been killed.
StreamCanEnd(c) ==
    \/ c.Reader = "file"
    \/ c.PcapFile # ""
    \/ c.proc = "killed"

\* The worker's channel is closed: the loop ends and mod.pktSourceChan = nil.
WorkerEnd(l) ==
    /\ panic = "none"
    /\ l \in DOMAIN loops
    /\ loops[l].pc = "range"
    /\ StreamCanEnd(ctxs[loops[l].rd])
    /\ pktSourceChan' = 0
    /\ loops' = [loops EXCEPT ![l].pc = "done"]
    /\ UNCHANGED <<Started, Ctx, Stats, ctxs, calls, runCtx, ncalls, caller, npackets,
                   consumed, panic, mysqlVars>>

\* The steps of the module when handlers are called by the command sources
\* CS with parameters from PS, the environment fails calls at the steps FS and
\* the capture delivers packets from KS.
NextOver(CS, PS, FS, KS) ==
    \/ \E c \in CS : StartConfigure(c)
    \/ \E c \in CS, p \in PS, fail \in FS : StartGetContext(c, p, fail)
    \/ \E c \in CS : StartConfigureErr(c)
    \/ \E c \in CS : StartSetRunning(c)
    \/ \E c \in CS : StopSetRunning(c)
    \/ \E c \in CS : StopCallback(c)
    \/ \E l \in 1..MaxCalls : WorkerInit(l)
    \/ \E l \in 1..MaxCalls, packet \in KS : WorkerPacket(l, packet)
    \/ \E l \in 1..MaxCalls : WorkerEnd(l)

\* Two packets, one for each way an iteration of the worker's loop ends: a
\* btle map without access address (return) and an advertisement (next packet).
MalformedPacket == Map("btle" :> Map("btle.advertising_address" :> Str("c0:ff:ee:00:00:01")))
AdvertPacket ==
    Map("btle" :> Map(
        "btle.access_address" :> Str(AdvertisingAccessAddress)
        @@ "btle.advertising_address" :> Str("c0:ff:ee:00:00:01")
        @@ "btcommon.eir_ad.advertising_data" :> Map(
               "btcommon.eir_ad.entry" :> Map(
                   "btcommon.eir_ad.entry.data" :> Str("0201061aff4c00")
                   @@ "btcommon.eir_ad.entry.company_id" :> Str("0x004c")))))
SomePackets == {MalformedPacket, AdvertPacket}

\* Live capture or a JSON file, with an output file.
SomeParams == {p \in Params : p.pcap = "" /\ p.output = "out.json"}
SomeFailPoints == {"none", "Start", "Create"}

\* Handlers called concurrently from both command sources.
Next == NextOver(Callers, SomeParams, SomeFailPoints, SomePackets)

Spec == Init /\ [][Next]_vars

\* Handlers called from one command source, with every parameter setting and
\* every failure of GetContext.
CtxNext == NextOver({"cli"}, Params, FailPoints, SomePackets)

CtxSpec == Init /\ [][CtxNext]_vars

\* Handlers called from one command source, reading a JSON file that holds any
\* packets.
PacketNext ==
    NextOver({"cli"}, {p \in Params : p.source # "" /\ p.pcap = "" /\ p.output = ""},
             {"none", "Open"}, Packets)

PacketSpec == Init /\ [][PacketNext]_vars

-----------------------------------------------------------------------------
(* MySQLGetFile.                                                            *)

\* byte(n): conversion of an int to a byte.
Byte(n) == n % 256

MySQLGetFile(in) == <<Byte(Len(in) + 1), 0, 0, 1, 251>> \o in

\* A file name of n bytes.
FileName(n, first) == [i \in 1..n |-> Byte(first + i)]

MySQLInit ==
    /\ Started = FALSE
    /\ ctxs = <<NewSnifferContext>>
    /\ Ctx = 1
    /\ Stats = NoStats
    /\ pktSourceChan = 0
    /\ loops = <<>>
    /\ calls = [c \in Callers |-> IdleCall]
    /\ runCtx = 0
    /\ ncalls = 0
    /\ caller = "none"
    /\ npackets = 0
    /\ consumed = NoPacket
    /\ panic = "none"
    /\ infile \in {FileName(n, first) : n \in 0..MaxInfileLen, first \in {46, 96}}
    /\ response = <<>>

MySQLGetFileCall ==
    /\ response = <<>>
    /\ response' = MySQLGetFile(infile)
    /\ UNCHANGED <<infile, snifferVars>>

MySQLNext == MySQLGetFileCall

MySQLSpec == MySQLInit /\ [][MySQLNext]_vars

-----------------------------------------------------------------------------
(* Properties.                                                              *)

\* The context a call of GetContext has just returned, with its error.
Returned(c) == calls[c].pc \in {"ConfigureErr", "SetRunning"}

\* The errors of GetContext raised before TSharkProc.Start() is called.
BeforeStart == {"param.source", "param.tshark", "param.interface", "param.pcap",
                "StdoutPipe"}

\* C1: GetContext picks exactly one input source.  With ble.sniff.source set,
\* no tshark process is created or started, TSharkRunning stays false and the
\* reader is the opened JSON file; with it empty, tshark is started with
\* "-T json -r <pcap>" when ble.sniff.pcap is set and "-i <interface> -T json"
\* otherwise; TSharkRunning is true exactly when the process started.
C1_OneInputSource ==
    \A c \in Callers : Returned(c) =>
        LET x == ctxs[calls[c].ctx]
            err == calls[c].err
        IN /\ x.TSharkRunning <=> x.proc = "running"
           /\ ~(x.srcFile = "open" /\ x.proc # "none")
           /\ x.Source # "" =>
                 /\ x.TSharkProc = NoProc /\ x.proc = "none" /\ ~x.TSharkRunning
                 /\ err # "Open" => x.Reader = "file" /\ x.srcFile = "open"
                 /\ err = "Open" => x.Reader = "nil" /\ x.srcFile = "none"
           /\ (x.Source = "" /\ err \notin BeforeStart) =>
                 /\ x.srcFile = "none"
                 /\ x.TSharkProc.path = DefaultTShark
                 /\ x.TSharkProc.args =
                        IF x.PcapFile # ""
                        THEN <<"-T", "json", "-r", x.PcapFile>>
                        ELSE <<"-i", x.Interface, "-T", "json">>
                 /\ x.proc = "running" <=> err # "Start"
                 /\ err # "Start" => x.Reader = "tshark"

\* A Start whose tshark process failed to start, reading a pcap file.
C1_Witness ==
    \E c \in Callers :
        /\ Returned(c)
        /\ calls[c].err = "Start"
        /\ ctxs[calls[c].ctx].PcapFile # ""
        /\ ctxs[calls[c].ctx].TSharkProc.args = <<"-T", "json", "-r", "capture.pcap">>

\* The step in which command source c calls the handler op.
Calling(c, op) ==
    /\ ncalls' # ncalls
    /\ caller' = c
    /\ calls'[c].op = op

\* C2: Start on a running module returns the already-started error and
\* changes neither the module's fields nor any context, and launches nothing.
C2_StartWhileRunning ==
    [][\A c \in Callers : (Calling(c, "Start") /\ Running) =>
          /\ calls'[c].pc = "idle"
          /\ calls'[c].err = "ErrAlreadyStarted"
          /\ UNCHANGED <<Started, Ctx, Stats, pktSourceChan, ctxs, loops>>]_vars

\* A Start that returned from Configure with the already-started error while a
\* worker of the running module holds a stream.
C2_Witness ==
    \E c \in Callers :
        /\ calls[c].op = "Start" /\ calls[c].pc = "idle"
        /\ calls[c].err = "ErrAlreadyStarted" /\ calls[c].at = "Configure"
        /\ Running
        /\ pktSourceChan # 0

\* C3: when Stop returns on a running module the module is not running, the
\* context closed is the one built by the Start being stopped, its tshark
\* process has been killed and its output file closed, and Stop never
\* dereferences a nil mod.Ctx.
C3_StopClosesItsRun ==
    [][\A c \in Callers : calls[c].pc = "StopCallback" =>
          /\ panic' # "Stop"
          /\ calls'[c].pc = "idle" =>
                /\ ~Started'
                /\ calls'[c].ctx = calls'[c].run
                /\ ctxs'[calls'[c].run].proc # "running"
                /\ ctxs'[calls'[c].run].outFile # "open"
                /\ ctxs'[calls'[c].run].OutputFile = "nil"]_vars

\* C4: when GetContext fails, Start returns its error, does not make the
\* module running, launches no worker, leaves mod.Ctx nil and leaves no
\* process, source file or output file of the attempt open.
C4_FailedStartReleasesAll ==
    [][\A c \in Callers : (calls[c].pc = "ConfigureErr" /\ calls'[c].pc = "idle") =>
          /\ calls'[c].err # "nil"
          /\ calls'[c].err = calls[c].err
          /\ UNCHANGED <<Started, loops>>
          /\ Ctx' = 0
          /\ ctxs'[calls[c].ctx].proc # "running"
          /\ ctxs'[calls[c].ctx].srcFile # "open"
          /\ ctxs'[calls[c].ctx].outFile # "open"]_vars

\* The condition under which a packet is an advertisement worth an event.
Advertises(packet) ==
    /\ packet.t = "map"
    /\ IsMap(packet.m, "btle")
    /\ LET b == packet.m["btle"].m IN
       /\ IsString(b, "btle.access_address")
       /\ b["btle.access_address"].s = "0x8e89bed6"
       /\ IsString(b, "btle.advertising_address")
       /\ IsMap(b, "btcommon.eir_ad.advertising_data")
       /\ LET a == b["btcommon.eir_ad.advertising_data"].m IN
          /\ IsMap(a, "btcommon.eir_ad.entry")
          /\ IsString(a["btcommon.eir_ad.entry"].m, "btcommon.eir_ad.entry.company_id")

\* The entry of an advertisement.
EntryOf(packet) ==
    packet.m["btle"].m["btcommon.eir_ad.advertising_data"].m["btcommon.eir_ad.entry"].m

ActiveWorkers == {l \in DOMAIN loops : loops[l].pc # "done"}

\* C6: at most one packet consumer loop is active at any time.
C6_SingleConsumerLoop == Cardinality(ActiveWorkers) <= 1

\* The number a 3-byte little-endian field holds.
LittleEndian3(b) == b[1] + 256 * b[2] + 65536 * b[3]

\* C7: MySQLGetFile(infile) is 5 + len(infile) bytes: the payload length
\* len(infile) + 1 in 3 little-endian bytes, sequence number 1, marker 0xfb,
\* then infile.
C7_GetFilePacket ==
    response # <<>> =>
        /\ Len(response) = 5 + Len(infile)
        /\ LittleEndian3(response) = Len(infile) + 1
        /\ response[4] = 1
        /\ response[5] = 251
        /\ SubSeq(response, 6, Len(response)) = infile

====
